---- MODULE Spec2Model ----
(***************************************************************************)
(* Model of the working-directory history of                               *)
(* spyder/plugins/workingdirectory/container.py                            *)
(* (WorkingDirectoryContainer): the list `history`, the index `histindex`, *)
(* the remote binding `server_id`, the process working directory, and the  *)
(* slots that change them (chdir, _previous_directory, _next_directory,    *)
(* _parent_directory, on_history_update, set_history).                     *)
(*                                                                         *)
(* Python values are encoded as follows:                                   *)
(*   - histindex is None or an int: <<>> is None, <<i>> is the int i;      *)
(*   - server_id is None or a str:  the string "None" is None;             *)
(*   - a list is a sequence; Python's 0-based (and negative) indices are   *)
(*     translated by PyPos.                                                *)
(* The filesystem is outside the program: each call of os.chdir and of     *)
(* osp.isdir draws its outcome from BOOLEAN.                               *)
(***************************************************************************)
EXTENDS Integers, Sequences, FiniteSets, TLC

VARIABLES history, histindex, server_id, cwd, conf, last, back

vars == <<history, histindex, server_id, cwd, conf, last, back>>

-----------------------------------------------------------------------------
(* Bounds of the model *)

\* |histindex| is capped: _previous_directory/_next_directory move it without limit
MaxIndex == 3

\* longest history list handed in by the configuration (setup, on_history_update)
MaxHist == 1

-----------------------------------------------------------------------------
(* The directories of the model and the path functions *)

Home == "/home"

FixedDirectory == "/fix"

Paths == {"/", "/home", "/fix"}

\* what callers hand to chdir: absolute paths and one path that is not normalised
Inputs == Paths \cup {"/home/.."}

\* the directories tried as set_history's cli_workdir
CliInputs == {"/fix", "/home/.."}

None == "None"

Servers == {"srv"}

NoIndex == <<>>

\* osp.join(getcwd_or_home(), osp.pardir)
JoinPardir(p) ==
    IF p = "/" THEN "/.." ELSE
    IF p = "/home" THEN "/home/.." ELSE "/fix/.."

\* osp.abspath on the paths of the model: ".." components are resolved
abspath(p) == IF p \in {"/..", "/home/..", "/fix/.."} THEN "/" ELSE p

-----------------------------------------------------------------------------
(* Python list operations *)

Min(a, b) == IF a < b THEN a ELSE b

Max(a, b) == IF a > b THEN a ELSE b

\* list[i] is defined for -len <= i < len
InRange(s, i) == -Len(s) <= i /\ i < Len(s)

\* the 1-based position of list[i]
PyPos(s, i) == IF i >= 0 THEN i + 1 ELSE Len(s) + i + 1

PyGet(s, i) == s[PyPos(s, i)]

\* list[:k]
PySliceTo(s, k) ==
    IF k >= 0 THEN SubSeq(s, 1, Min(k, Len(s)))
    ELSE SubSeq(s, 1, Max(Len(s) + k, 0))

\* list.pop(i): the list without list[i]
PyPop(s, i) ==
    SubSeq(s, 1, PyPos(s, i) - 1) \o SubSeq(s, PyPos(s, i) + 1, Len(s))

\* x in list
Contains(s, x) == \E k \in 1..Len(s) : s[k] = x

\* IndexOf with the position counted from 1
IndexOfOneBased(s, x) == CHOOSE k \in 1..Len(s) : s[k] = x /\ \A j \in 1..(k-1) : s[j] # x

\* list.index(x): the first 0-based index of x
IndexOf(s, x) == (CHOOSE k \in 1..Len(s) : s[k] = x /\ \A j \in 1..(k-1) : s[j] # x) - 1

NoDup(s) == \A i, j \in 1..Len(s) : s[i] = s[j] => i = j

RECURSIVE SeqsUpTo(_)
SeqsUpTo(n) ==
    IF n = 0 THEN {<<>>}
    ELSE LET shorter == SeqsUpTo(n - 1)
         IN shorter \cup {Append(s, p) : s \in {t \in shorter : Len(t) = n - 1}, p \in Paths}

\* the lists the configuration option 'history' can hold: the combo box's items
HistValues == {s \in SeqsUpTo(MaxHist) : NoDup(s)}

\* the lists tried as set_history's `history`
SeedValues == {<<>>, <<"/home", "/fix">>}

-----------------------------------------------------------------------------
(* chdir, lines 357-412 *)

\* PushNew without the truncation of line 396
PushNewKeepsForward(h, hi, directory) ==
    [history |-> Append(h, directory), histindex |-> <<Len(h)>>]

\* lines 393-399: a directory that is not in the history is pushed after the
\* current position; what was after it is dropped
PushNew(h, hi, directory) ==
    LET kept == IF hi = NoIndex THEN <<>> ELSE PySliceTo(h, hi[1] + 1)
        h2   == Append(kept, directory)
    IN [history |-> h2, histindex |-> <<Len(h2) - 1>>]

\* lines 388-399, the branch for `not server_id`: the new history and index, the
\* directory to change to, the branch taken ("browse", line 389; "revisit", line
\* 391; "push", lines 393-399) and the exception the subscript of line 389 raises
HistoryManagement(h, hi, directory, browsing_history) ==
    IF browsing_history THEN
        IF hi = NoIndex THEN
            [history |-> h, histindex |-> hi, directory |-> directory,
             branch |-> "browse", raised |-> "TypeError"]
        ELSE IF ~InRange(h, hi[1]) THEN
            [history |-> h, histindex |-> hi, directory |-> directory,
             branch |-> "browse", raised |-> "IndexError"]
        ELSE
            [history |-> h, histindex |-> hi, directory |-> PyGet(h, hi[1]),
             branch |-> "browse", raised |-> "no"]
    ELSE IF Contains(h, directory) THEN
        [history |-> h, histindex |-> <<IndexOf(h, directory)>>,
         directory |-> directory, branch |-> "revisit", raised |-> "no"]
    ELSE
        [history |-> PushNew(h, hi, directory).history,
         histindex |-> PushNew(h, hi, directory).histindex,
         directory |-> directory, branch |-> "push", raised |-> "no"]

\* ManageHistory without the test of line 387
ManageHistoryAnyServer(h, hi, directory, browsing_history, sid) ==
    HistoryManagement(h, hi, directory, browsing_history)

\* line 387: the history is managed for local directories only
ManageHistory(h, hi, directory, browsing_history, sid) ==
    IF sid = None THEN HistoryManagement(h, hi, directory, browsing_history)
    ELSE [history |-> h, histindex |-> hi, directory |-> directory,
          branch |-> "remote", raised |-> "no"]

\* EmitChanged without the test of line 409
EmitAlways(directory, emit) == <<directory>>

\* lines 409-410: the signal sig_current_directory_changed, as the list of the
\* paths emitted by the call
EmitChanged(directory, emit) == IF emit THEN <<directory>> ELSE <<>>

\* lines 402-412: the process directory is changed (local directories only) and
\* the signal emitted; an OSError is swallowed after history.pop(histindex).
\* `ok` is whether os.chdir succeeds.
ChangeDirectory(hm, c, emit, sid, ok) ==
    IF sid = None /\ ~ok THEN
        [history |-> PyPop(hm.history, hm.histindex[1]), histindex |-> hm.histindex,
         cwd |-> c, emitted |-> <<>>, directory |-> hm.directory,
         branch |-> hm.branch, res |-> "OSError"]
    ELSE
        [history |-> hm.history, histindex |-> hm.histindex,
         cwd |-> IF sid = None THEN hm.directory ELSE c,
         emitted |-> EmitChanged(hm.directory, emit),
         directory |-> hm.directory, branch |-> hm.branch, res |-> "ok"]

\* lines 376-412: chdir called with the history h, the index hi and the process
\* directory c. An exception raised by line 389 leaves everything after line 376
\* undone.
chdir(h, hi, c, directory, browsing_history, emit, sid, ok) ==
    LET d1 == IF directory # "" /\ sid = None THEN abspath(directory) ELSE directory
        hm == ManageHistory(h, hi, d1, browsing_history, sid)
    IN IF hm.raised # "no" THEN
           [history |-> h, histindex |-> hi, cwd |-> c, emitted |-> <<>>,
            directory |-> d1, branch |-> hm.branch, res |-> hm.raised]
       ELSE ChangeDirectory(hm, c, emit, sid, ok)

-----------------------------------------------------------------------------
(* set_history and _get_init_workdir *)

\* lines 283-296: the configured initial directory and the options as the call
\* leaves them. fixedIsDir is osp.isdir(fixed_directory).
_get_init_workdir(cf, fixedIsDir) ==
    IF cf.use_home THEN [workdir |-> Home, conf |-> cf]
    ELSE IF cf.use_fixed THEN
        IF fixedIsDir THEN [workdir |-> FixedDirectory, conf |-> cf]
        ELSE [workdir |-> Home, conf |-> [use_home |-> TRUE, use_fixed |-> FALSE]]
    ELSE [workdir |-> Home, conf |-> cf]

\* InitialWorkdir with the configured directory as the fallback of line 449
InitialWorkdirConfigured(cf, cli, cliIsDir, fixedIsDir) ==
    IF cli # <<>> /\ cliIsDir THEN [workdir |-> cli[1], conf |-> cf]
    ELSE _get_init_workdir(cf, fixedIsDir)

\* lines 441-449: the directory set_history changes to. cli is <<>> for
\* cli_workdir=None, else <<path>>; cliIsDir is osp.isdir(cli_workdir).
InitialWorkdir(cf, cli, cliIsDir, fixedIsDir) ==
    IF cli = <<>> THEN _get_init_workdir(cf, fixedIsDir)
    ELSE IF cliIsDir THEN [workdir |-> cli[1], conf |-> cf]
    ELSE [workdir |-> Home, conf |-> cf]

-----------------------------------------------------------------------------
(* The state and the slots *)

\* What a call leaves for the observer: the slot, the directory handed to chdir,
\* whether a signal was asked for, the length of the history when chdir was
\* entered, how the call ended ("ok", "OSError" for the swallowed failure of
\* os.chdir, or the exception that escaped), the branch of lines 388-399 it took,
\* the final value of chdir's local `directory`, the signals emitted, and
\* set_history's cli_workdir with the filesystem's answers.
Call(op, arg, emit, len0, out, cli, cliIsDir, fixedIsDir) ==
    [op |-> op, arg |-> arg, emit |-> emit, len0 |-> len0, res |-> out.res,
     branch |-> out.branch, directory |-> out.directory, emitted |-> out.emitted,
     cli |-> cli, cliIsDir |-> cliIsDir, fixedIsDir |-> fixedIsDir]

NoOutcome == [res |-> "ok", branch |-> "none", directory |-> "", emitted |-> <<>>]

NoCall == Call("setup", "", FALSE, 0, NoOutcome, <<>>, FALSE, FALSE)

\* the navigator's state when _previous_directory was called, with how that call
\* ended; kept while the next call is _next_directory
Snapshot(res) ==
    <<[history |-> history, histindex |-> histindex, cwd |-> cwd, res |-> res]>>

NoSnapshot == <<>>

\* lines 181-183 (setup): the history is the configured one, no index, no server
Init ==
    /\ history \in HistValues
    /\ histindex = NoIndex
    /\ server_id = None
    /\ cwd \in {Home, "/"}
    /\ conf \in [use_home : BOOLEAN, use_fixed : BOOLEAN]
    /\ last = NoCall
    /\ back = NoSnapshot

\* the effect of a call of chdir whose outcome is `out`
Effect(out, sid) ==
    /\ history' = out.history
    /\ histindex' = out.histindex
    /\ cwd' = out.cwd
    /\ server_id' = sid

\* lines 357-412, called by the combo box, the browse dialog or another plugin
Chdir ==
    \E directory \in Inputs, emit \in BOOLEAN, sid \in {None} \cup Servers,
       ok \in BOOLEAN :
        LET out == chdir(history, histindex, cwd, directory, FALSE, emit, sid, ok)
        IN /\ sid # None => ok        \* os.chdir is not called: one outcome
           /\ Effect(out, sid)
           /\ last' = Call("chdir", directory, emit, Len(history), out,
                           <<>>, FALSE, FALSE)
           /\ back' = NoSnapshot
           /\ UNCHANGED conf

\* StepIndex with _next_directory decrementing like _previous_directory
StepIndexBack(hi, delta) == <<hi[1] - 1>>

\* lines 326 and 332: histindex -= 1 and histindex += 1
StepIndex(hi, delta) == <<hi[1] + delta>>

\* lines 324-333: _previous_directory (delta = -1) and _next_directory (delta = 1).
\* With histindex None the assignment raises TypeError and nothing has changed;
\* otherwise the index is moved and chdir(directory='', browsing_history=True) runs.
Browse(op, delta) ==
    \E ok \in BOOLEAN :
        IF histindex = NoIndex THEN
            /\ ok                     \* os.chdir is not reached: one outcome
            /\ last' = Call(op, "", TRUE, Len(history),
                            [NoOutcome EXCEPT !.res = "TypeError"],
                            <<>>, FALSE, FALSE)
            /\ UNCHANGED <<history, histindex, server_id, cwd, conf>>
        ELSE
            LET out == chdir(history, StepIndex(histindex, delta), cwd, "", TRUE,
                             TRUE, None, ok)
            IN /\ out.res \in {"TypeError", "IndexError"} => ok
               /\ Effect(out, None)
               /\ last' = Call(op, "", TRUE, Len(history), out, <<>>, FALSE, FALSE)
               /\ UNCHANGED conf

_previous_directory ==
    /\ histindex # NoIndex => histindex[1] > -MaxIndex
    /\ Browse("_previous_directory", -1)
    /\ back' = Snapshot(last'.res)

_next_directory ==
    /\ histindex # NoIndex => histindex[1] < MaxIndex
    /\ Browse("_next_directory", 1)
    /\ back' = IF last.op = "_previous_directory" THEN back ELSE NoSnapshot

\* lines 336-338: _parent_directory
_parent_directory ==
    \E ok \in BOOLEAN :
        LET out == chdir(history, histindex, cwd, JoinPardir(cwd), FALSE, TRUE, None, ok)
        IN /\ Effect(out, None)
           /\ last' = Call("_parent_directory", JoinPardir(cwd), TRUE, Len(history),
                           out, <<>>, FALSE, FALSE)
           /\ back' = NoSnapshot
           /\ UNCHANGED conf

\* lines 267-269: the configuration option 'history' changed
on_history_update ==
    \E value \in HistValues :
        /\ history' = value
        /\ last' = Call("on_history_update", "", FALSE, Len(history), NoOutcome,
                        <<>>, FALSE, FALSE)
        /\ back' = NoSnapshot
        /\ UNCHANGED <<histindex, server_id, cwd, conf>>

\* lines 426-451: set_conf('history', ...) reaches on_history_update, then the
\* initial directory is chosen and chdir is called with it
set_history ==
    \E value \in SeedValues, cli \in {<<>>} \cup {<<p>> : p \in CliInputs},
       cliIsDir \in BOOLEAN, fixedIsDir \in BOOLEAN, ok \in BOOLEAN :
        /\ cli = <<FixedDirectory>> => cliIsDir = fixedIsDir
        /\ cli = <<>> => ~cliIsDir    \* osp.isdir(cli_workdir) is not called
        \* osp.isdir(fixed_directory) is not called: one outcome
        /\ (cli = <<>> /\ (conf.use_home \/ ~conf.use_fixed)) => ~fixedIsDir
        /\ LET iw  == InitialWorkdir(conf, cli, cliIsDir, fixedIsDir)
               out == chdir(value, histindex, cwd, iw.workdir, FALSE, TRUE, None, ok)
           IN /\ Effect(out, None)
              /\ conf' = iw.conf
              /\ last' = Call("set_history", iw.workdir, TRUE, Len(value), out,
                              cli, cliIsDir, fixedIsDir)
              /\ back' = NoSnapshot

Next ==
    \/ Chdir
    \/ _previous_directory
    \/ _next_directory
    \/ _parent_directory
    \/ on_history_update
    \/ set_history

Spec == Init /\ [][Next]_vars

-----------------------------------------------------------------------------
(* Properties *)

\* the navigator is Positioned: entries non-empty and the cursor a valid index
Positioned(h, hi) == h # <<>> /\ hi # NoIndex /\ 0 <= hi[1] /\ hi[1] < Len(h)

\* the calls that reach chdir for a local directory without browsing (commit)
IsLocalCommit(call) ==
    /\ call.op \in {"chdir", "_parent_directory"}
    /\ call.branch \in {"push", "revisit"}

\* C1: whenever the history is non-empty the cursor is an index of it. Stated for
\* the states in which the cursor has been set (before the first chdir it is None
\* by construction, line 182), so that a violation is one of a set cursor.
C1_CursorInRange ==
    (history # <<>> /\ histindex # NoIndex)
        => (0 <= histindex[1] /\ histindex[1] < Len(history))

\* C2: a non-remote commit whose os.chdir fails leaves history and histindex as
\* they were before the call.
C2_FailedCommitRestores ==
    [][(IsLocalCommit(last') /\ last'.res = "OSError")
          => (history' = history /\ histindex' = histindex)]_vars

\* C3: _previous_directory with the cursor None or on the first entry, and
\* _next_directory with the cursor on the last entry, fail and change neither
\* history, histindex nor the process directory.
C3_NoHistoryMutatesNothing ==
    [][((last'.op = "_previous_directory"
            /\ (histindex = NoIndex
                \/ (Positioned(history, histindex) /\ histindex = <<0>>)))
        \/ (last'.op = "_next_directory" /\ Positioned(history, histindex)
            /\ histindex = <<Len(history) - 1>>))
          => (last'.res # "ok" /\ history' = history /\ histindex' = histindex
              /\ cwd' = cwd)]_vars

C7_RemoteAlwaysEmits ==
    [][(last'.op = "chdir" /\ server_id' # None)
          => (/\ history' = history /\ histindex' = histindex /\ cwd' = cwd
              /\ last'.emitted = <<last'.arg>>)]_vars

\* C7 amended: a chdir with server_id set (the binding it records) leaves history,
\* histindex and the process directory as they were, and emits the signal with
\* the given path when emit is true and no signal when emit is false.
C7_RemoteFrame ==
    [][(last'.op = "chdir" /\ server_id' # None)
          => (/\ history' = history /\ histindex' = histindex /\ cwd' = cwd
              /\ last'.branch = "remote"
              /\ last'.emitted = IF last'.emit THEN <<last'.arg>> ELSE <<>>)]_vars

\* C7 witness: a remote chdir made when the navigator was Positioned, with a path
\* that abspath would have changed.
C7_Witness ==
    /\ last.op = "chdir" /\ server_id \in Servers /\ Positioned(history, histindex)
    /\ last.arg = "/home/.." /\ last.emitted = <<"/home/..">> /\ cwd # "/"

\* C8: once Positioned, no chdir, _previous_directory, _next_directory or
\* _parent_directory call empties the history.
C8_NeverEmptyAgain ==
    [][(Positioned(history, histindex)
        /\ last'.op \in {"chdir", "_previous_directory", "_next_directory",
                         "_parent_directory"})
          => history' # <<>>]_vars

\* C9 as stated: set_history with a cli_workdir that is not a directory changes to
\* the configured initial directory: the fixed directory when that mode is enabled
\* and the directory exists, else the home directory.
C9_InvalidCliUsesConfigured ==
    (last.op = "set_history" /\ last.cli # <<>> /\ ~last.cliIsDir)
        => last.arg = (IF conf.use_fixed /\ last.fixedIsDir THEN FixedDirectory
                       ELSE Home)

\* C9 amended: set_history with a cli_workdir that is a directory calls chdir with
\* it, and it becomes the process directory when os.chdir succeeds; with a
\* cli_workdir that is not a directory it calls chdir with the home directory,
\* whatever the startup options are.
C9_CliWorkdir ==
    (last.op = "set_history" /\ last.cli # <<>>)
        => (/\ last.arg = (IF last.cliIsDir THEN last.cli[1] ELSE Home)
            /\ last.directory = abspath(last.arg)
            /\ (last.res = "ok" => cwd = abspath(last.arg)))

\* C9 witness: an invalid cli_workdir while the fixed directory is enabled and
\* exists; the process is in the home directory.
C9_Witness ==
    /\ last.op = "set_history" /\ last.cli # <<>> /\ ~last.cliIsDir
    /\ ~conf.use_home /\ conf.use_fixed /\ last.fixedIsDir
    /\ last.res = "ok" /\ cwd = Home

\* C10: a non-remote chdir call emits the signal at most once, only when emit is
\* true and os.chdir succeeded, with the path that is both the new process
\* directory and history[histindex]; when the call fails nothing is emitted and
\* the process directory is unchanged.
C10_SignalMatchesDirectory ==
    [][(last'.op \in {"chdir", "_previous_directory", "_next_directory",
                      "_parent_directory", "set_history"}
        /\ server_id' = None)
          => (/\ Len(last'.emitted) <= 1
              /\ last'.emitted # <<>>
                    => (/\ last'.emit /\ last'.res = "ok"
                        /\ last'.emitted[1] = cwd'
                        /\ histindex' # NoIndex
                        /\ InRange(history', histindex'[1])
                        /\ last'.emitted[1] = PyGet(history', histindex'[1]))
              /\ last'.res # "ok" => (last'.emitted = <<>> /\ cwd' = cwd))]_vars

\* C10 witness: a commit that emitted the directory it changed to.
C10_Witness ==
    /\ last.op = "chdir" /\ last.branch = "push" /\ last.res = "ok"
    /\ last.emitted = <<cwd>> /\ last.arg = "/home/.." /\ cwd = "/"

====
